---- MODULE Spec2Model ----
(***************************************************************************)
(* CalibrationLib: a typed accessor over the ESP32 Preferences key-value   *)
(* store, with a flat JSON codec and version/timestamp bookkeeping.        *)
(*                                                                         *)
(* The accessor (class CalibrationLib) is translated method by method.     *)
(* The platform store (class Preferences over NVS) is not part of the      *)
(* library: it is modelled by its contract, one operator per call the      *)
(* library makes (Prefs...).  A namespace maps each key to one typed       *)
(* entry; an entry takes one slot of the partition.                        *)
(*                                                                         *)
(* Values.  A value is a record [t, n, s]: t is the type tag, n the        *)
(* number, s the characters.  An int32 is its integer.  A float32 x is     *)
(* the integer 2x (one binary fractional digit): 3 is 1.5 and 4 is 2.0.    *)
(* A string is the sequence of its characters.                             *)
(***************************************************************************)
EXTENDS Integers, Sequences, FiniteSets, TLC

\* ------------------------------------------------------------------ bounds

\* Entry slots of the NVS partition (shared by all namespaces).
Capacity == 3

\* The longest plaintext given to encryptData.
MaxPlainLen == 33

\* The uptime at which the clock is stopped.
MaxMillis == 3

\* ------------------------------------------------------------ input domains

NullName == "<null>"
BadName == "name_longer_than_15"
NsNames == {"calib", "test"}
BeginNames == NsNames \cup {NullName, BadName}
NoNs == "<closed>"

UserKeys == {"offset"}
VersionKey == "_version"
TimestampKey == "_timestamp"
Keys == UserKeys \cup {VersionKey, TimestampKey}

IntVals == {42}
FloatVals == {3, 4}
StrVals == {<<>>, <<"X">>}
IntDefaults == {-1}
FloatDefaults == {-1}
StrDefaults == {<<"d">>}
TimestampArgs == {0, 5}

\* ------------------------------------------------------------------ values

IntVal(n) == [n |-> n, t |-> "i", s |-> <<>>]
FloatVal(h) == [n |-> h, t |-> "f", s |-> <<>>]
StrVal(s) == [n |-> 0, t |-> "s", s |-> s]
ULongVal(n) == [n |-> n, t |-> "u", s |-> <<>>]
NoEntry == [n |-> 0, t |-> "", s |-> <<>>]

\* enum CalibrationError
CAL_OK == "CAL_OK"
CAL_NOT_INITIALIZED == "CAL_NOT_INITIALIZED"
CAL_INVALID_PARAM == "CAL_INVALID_PARAM"
CAL_ENCRYPTION_ERROR == "CAL_ENCRYPTION_ERROR"

\* uint8_t _encryptionKey[32], as [kind, of]: all zero, the SHA-256 digest of
\* a passphrase, or indeterminate.  The constructor does not initialise the
\* array: the key of a new object is the bytes its memory held, which stand
\* for no value in particular and are not known to be zero.  The all-zero
\* key of an object that is not enabled is the state disableEncryption
\* leaves behind.
ZeroKey == [kind |-> "zero", of |-> ""]
IndeterminateKey == [kind |-> "indeterminate", of |-> ""]
SHA256(passphrase) == [kind |-> "sha256", of |-> passphrase]

VARIABLES
    nvs,                 \* the flash: [namespace -> [key -> entry or NoEntry]]
    started,             \* Preferences::_started
    handle,              \* Preferences::_handle: the namespace it is open on
    _initialized,
    _lastError,
    _batchMode,
    _encryptionEnabled,
    _encryptionKey,
    millis,              \* the uptime counter
    written,             \* history: per key, the value of the last successful
                         \* set since which the key was not written, removed
                         \* or cleared (NoEntry: none)
    last                 \* the last call: [op, arg, was, dflt, ret, val, doc]

vars == <<nvs, started, handle, _initialized, _lastError, _batchMode,
          _encryptionEnabled, _encryptionKey, millis, written, last>>

\* The members no store operation touches.
flags == <<_batchMode, _encryptionEnabled, _encryptionKey>>

\* The record of a call: op the method, arg its key or name, was the
\* namespace open before it (begin), dflt the default given (get), ret the
\* value returned, val the value delivered (get), doc the members of the
\* text delivered (export) or given (import).
NoDoc == <<>>
CallRecord(op, arg, was, dflt, ret, val, doc) ==
    [op |-> op, arg |-> arg, was |-> was, dflt |-> dflt, ret |-> ret,
     val |-> val, doc |-> doc]
Call(op, arg, ret, val, doc) == CallRecord(op, arg, "", NoEntry, ret, val, doc)

NothingWritten == [k \in Keys |-> NoEntry]
EmptyNamespace == [k \in Keys |-> NoEntry]

\* ------------------------------------------------- the store (Preferences)

\* The name is one nvs_open accepts: 1 to 15 characters.
NameLen(name) ==
    CASE name = "calib" -> 5
      [] name = "test" -> 4
      [] name = BadName -> 19
      [] OTHER -> 0

Mountable(name) == name \in NsNames /\ NameLen(name) >= 1 /\ NameLen(name) <= 15

\* The Preferences object: [started, handle].
Prefs == [started |-> started, handle |-> handle]

\* Preferences::end(): closes the handle when started.
PrefsEnd(p) ==
    IF p.started THEN [started |-> FALSE, handle |-> NoNs] ELSE p

\* Preferences::begin(name, false): refuses when started already; opens the
\* namespace (creating it) when the name can be mounted.  [ok, p].
PrefsBegin(p, name) ==
    IF p.started THEN [p |-> p, ok |-> FALSE]
    ELSE IF Mountable(name)
         THEN [p |-> [started |-> TRUE, handle |-> name], ok |-> TRUE]
         ELSE [p |-> p, ok |-> FALSE]

StoredKeys(ns) == {k \in Keys : ns[k] # NoEntry}

RECURSIVE UsedIn(_, _)
UsedIn(s, names) ==
    IF names = {} THEN 0
    ELSE LET n == CHOOSE x \in names : TRUE
         IN Cardinality(StoredKeys(s[n])) + UsedIn(s, names \ {n})

\* Preferences::freeEntries(): free slots of the whole partition.
PrefsFreeEntries(s) == Capacity - UsedIn(s, NsNames)

\* A typed put: the key's entry is replaced; a new key needs a free slot.
\* [ok, s]: whether the entry was written, and the store afterwards.
PrefsPut(s, h, key, e) ==
    IF s[h][key] # NoEntry \/ PrefsFreeEntries(s) > 0
    THEN [s |-> [s EXCEPT ![h][key] = e], ok |-> TRUE]
    ELSE [s |-> s, ok |-> FALSE]

\* The size_t a put returns: the bytes written, 0 on failure.  putString
\* returns strlen(value), which is 0 for the empty string it has written.
PrefsPutSize(ok, e) ==
    IF ~ok THEN 0
    ELSE IF e.t = "s" THEN Len(e.s)
    ELSE 4

\* A typed get: the stored value when the key holds an entry of the type
\* asked for, the default otherwise.
PrefsGet(s, h, key, dflt) ==
    IF s[h][key].t = dflt.t THEN s[h][key] ELSE dflt

PrefsIsKey(s, h, key) == s[h][key] # NoEntry

\* Preferences::remove(key): [ok, s]; fails when the key is not stored.
PrefsRemove(s, h, key) ==
    IF s[h][key] # NoEntry
    THEN [s |-> [s EXCEPT ![h][key] = NoEntry], ok |-> TRUE]
    ELSE [s |-> s, ok |-> FALSE]

\* Preferences::clear(): erases every entry of the open namespace.
PrefsClear(s, h) == [s |-> [s EXCEPT ![h] = EmptyNamespace], ok |-> TRUE]

\* The orders in which the store may enumerate the keys of a namespace.
RECURSIVE Enumerations(_)
Enumerations(ks) ==
    IF ks = {} THEN {<<>>}
    ELSE UNION {{<<k>> \o rest : rest \in Enumerations(ks \ {k})} : k \in ks}

\* key(i) of an enumeration: the i-th stored key, the empty String past the
\* last one.
PrefsKey(order, i) == IF i < Len(order) THEN order[i + 1] ELSE ""

\* getType(key): the type tag of the entry, the empty String when absent.
PrefsGetType(s, h, key) == IF key \in Keys THEN s[h][key].t ELSE ""

\* ---------------------------------------------------- JSON (ArduinoJson)

\* A JSON text is [wellFormed, members]: whether it parses, and the sequence
\* of the members of its flat object.  A member's value is a token: "int"
\* (digits only), "float" (with a fraction; n counts halves), "str", "null",
\* "obj" or "arr".
JsonText(members) == [members |-> members, wellFormed |-> TRUE]
Malformed == [members |-> <<>>, wellFormed |-> FALSE]
JInt(n) == [n |-> n, t |-> "int", s |-> <<>>]
JFloat(h) == [n |-> h, t |-> "float", s |-> <<>>]
JStr(s) == [n |-> 0, t |-> "str", s |-> s]
JNull == [n |-> 0, t |-> "null", s |-> <<>>]
JObj == [n |-> 0, t |-> "obj", s |-> <<>>]
JArr == [n |-> 0, t |-> "arr", s |-> <<>>]
Member(key, val) == [val |-> val, key |-> key]

\* serializeJson of one value: a float is written with as few digits as
\* possible, so one without a fraction is written as its integer digits.
SerializeValue(v) ==
    IF v.t = "float" /\ v.n % 2 = 0 THEN JInt(v.n \div 2) ELSE v

RECURSIVE SerializeJson(_)
SerializeJson(root) ==
    IF root = <<>> THEN <<>>
    ELSE <<Member(Head(root).key, SerializeValue(Head(root).val))>>
         \o SerializeJson(Tail(root))

\* root[key] = value: replaces the member of that key, or appends one.
RECURSIVE JsonAssign(_, _, _)
JsonAssign(root, key, val) ==
    IF root = <<>> THEN <<Member(key, val)>>
    ELSE IF Head(root).key = key THEN <<Member(key, val)>> \o Tail(root)
    ELSE <<Head(root)>> \o JsonAssign(Tail(root), key, val)

\* ------------------------------------------------------------ the accessor

Init ==
    /\ nvs \in [NsNames -> {EmptyNamespace}]
    /\ started = FALSE
    /\ handle = NoNs
    /\ _initialized = FALSE
    /\ _lastError = CAL_OK
    /\ _batchMode = FALSE
    /\ _encryptionEnabled = FALSE
    /\ _encryptionKey = IndeterminateKey
    /\ millis = 0
    /\ written = NothingWritten
    /\ last = Call("new", "", TRUE, NoEntry, NoDoc)

\* Mutant: begin opens the new namespace without closing the previous one.
beginClosePrevious_skip(p) == p

\* begin: the previous namespace is closed first.
beginClosePrevious(p) == IF _initialized THEN PrefsEnd(p) ELSE p

\* Mutant: begin returns false without recording the error.
beginError_keeps(ok) == _lastError

\* begin: the error recorded, given whether the store was mounted.
beginError(ok) == IF ok THEN _lastError ELSE CAL_NOT_INITIALIZED

begin(name) ==
    IF name = NullName
    THEN /\ _lastError' = CAL_INVALID_PARAM
         /\ last' = CallRecord("begin", name, handle, NoEntry, FALSE, NoEntry, NoDoc)
         /\ UNCHANGED <<nvs, started, handle, _initialized, millis, written, flags>>
    ELSE LET r == PrefsBegin(beginClosePrevious(Prefs), name)
         IN /\ started' = r.p.started
            /\ handle' = r.p.handle
            /\ _initialized' = r.ok
            /\ _lastError' = beginError(r.ok)
            /\ written' = NothingWritten
            /\ last' = CallRecord("begin", name, handle, NoEntry, r.ok, NoEntry, NoDoc)
            /\ UNCHANGED <<nvs, millis, flags>>

end ==
    /\ IF _initialized
       THEN LET p == PrefsEnd(Prefs)
            IN /\ started' = p.started
               /\ handle' = p.handle
               /\ _initialized' = FALSE
       ELSE UNCHANGED <<started, handle, _initialized>>
    /\ written' = NothingWritten
    /\ last' = Call("end", "", TRUE, NoEntry, NoDoc)
    /\ UNCHANGED <<nvs, _lastError, millis, flags>>

\* Mutant: a set made in batch mode is held back until the commit.
setCalibrationValue_buffered(s, key, e) ==
    IF ~_initialized THEN [s |-> s, ret |-> FALSE]
    ELSE IF _batchMode THEN [s |-> s, ret |-> TRUE]
    ELSE LET r == PrefsPut(s, handle, key, e)
         IN [s |-> r.s, ret |-> PrefsPutSize(r.ok, e) # 0]

\* Mutant: a string set while encryption is enabled is stored enciphered.
setCalibrationValue_enciphers(s, key, e) ==
    IF ~_initialized THEN [s |-> s, ret |-> FALSE]
    ELSE LET c == IF _encryptionEnabled /\ e.t = "s" THEN StrVal(<<"#">> \o e.s) ELSE e
             r == PrefsPut(s, handle, key, c)
         IN [s |-> r.s, ret |-> PrefsPutSize(r.ok, c) # 0]

\* Mutant: the result of the store's put is ignored.
setCalibrationValue_ignoresPut(s, key, e) ==
    IF ~_initialized THEN [s |-> s, ret |-> FALSE]
    ELSE [s |-> PrefsPut(s, handle, key, e).s, ret |-> TRUE]

\* setCalibrationValue, one body for its three overloads: [ret, s].
setCalibrationValue(s, key, e) ==
    IF ~_initialized THEN [s |-> s, ret |-> FALSE]
    ELSE LET r == PrefsPut(s, handle, key, e)
         IN [s |-> r.s, ret |-> PrefsPutSize(r.ok, e) # 0]

\* The set as a call of the program.
Set(op, key, e) ==
    LET r == setCalibrationValue(nvs, key, e)
    IN /\ nvs' = r.s
       /\ written' = [written EXCEPT ![key] = IF r.ret THEN e ELSE NoEntry]
       /\ last' = Call(op, key, r.ret, NoEntry, NoDoc)
       /\ UNCHANGED <<started, handle, _initialized, _lastError, millis, flags>>

setCalibrationValueInt(key, value) == Set("setInt", key, IntVal(value))
setCalibrationValueFloat(key, value) == Set("setFloat", key, FloatVal(value))
setCalibrationValueString(key, value) == Set("setString", key, StrVal(value))

\* Mutant: a get on an open namespace returns true whether or not the key
\* is stored.
getCalibrationValue_retTrue(key, dflt) ==
    IF ~_initialized THEN [ret |-> FALSE, val |-> dflt]
    ELSE [ret |-> TRUE, val |-> PrefsGet(nvs, handle, key, dflt)]

\* getCalibrationValue, one body for its three overloads: [ret, val]; the
\* type asked for is the type of the default.
getCalibrationValue(key, dflt) ==
    IF ~_initialized THEN [ret |-> FALSE, val |-> dflt]
    ELSE [ret |-> PrefsIsKey(nvs, handle, key),
          val |-> PrefsGet(nvs, handle, key, dflt)]

\* A call that reads: only its result is recorded.
Read(op, arg, ret, val, doc) ==
    /\ last' = Call(op, arg, ret, val, doc)
    /\ UNCHANGED <<nvs, started, handle, _initialized, _lastError, millis,
                   written, flags>>

Get(op, key, dflt) ==
    LET r == getCalibrationValue(key, dflt)
    IN /\ last' = CallRecord(op, key, "", dflt, r.ret, r.val, NoDoc)
       /\ UNCHANGED <<nvs, started, handle, _initialized, _lastError, millis,
                      written, flags>>

getCalibrationValueInt(key, dflt) == Get("getInt", key, IntVal(dflt))
getCalibrationValueFloat(key, dflt) == Get("getFloat", key, FloatVal(dflt))
getCalibrationValueString(key, dflt) == Get("getString", key, StrVal(dflt))

hasCalibrationValue(key) ==
    Read("has", key, _initialized /\ PrefsIsKey(nvs, handle, key), NoEntry, NoDoc)

removeCalibrationValue(key) ==
    LET r == IF ~_initialized THEN [s |-> nvs, ok |-> FALSE]
             ELSE PrefsRemove(nvs, handle, key)
    IN /\ nvs' = r.s
       /\ written' = [written EXCEPT ![key] = NoEntry]
       /\ last' = Call("remove", key, r.ok, NoEntry, NoDoc)
       /\ UNCHANGED <<started, handle, _initialized, _lastError, millis, flags>>

\* Mutant: clearAll spares the reserved entries of the open namespace.
clearAll_keepsMetadata(s) ==
    IF ~_initialized THEN [s |-> s, ok |-> FALSE]
    ELSE [s |-> [s EXCEPT ![handle] =
                    [k \in Keys |-> IF k \in UserKeys THEN NoEntry ELSE s[handle][k]]],
          ok |-> TRUE]

\* Mutant: clearAll erases every namespace of the partition.
clearAll_everyNamespace(s) ==
    IF ~_initialized THEN [s |-> s, ok |-> FALSE]
    ELSE [s |-> [n \in NsNames |-> EmptyNamespace], ok |-> TRUE]

\* Mutant: clearAll reports success when no namespace is open.
clearAll_trueWhenClosed(s) ==
    IF ~_initialized THEN [s |-> s, ok |-> TRUE] ELSE PrefsClear(s, handle)

\* clearAllCalibrationValues: [ok, s].
clearAll(s) ==
    IF ~_initialized THEN [s |-> s, ok |-> FALSE] ELSE PrefsClear(s, handle)

clearAllCalibrationValues ==
    LET r == clearAll(nvs)
    IN /\ nvs' = r.s
       /\ written' = NothingWritten
       /\ last' = Call("clear", "", r.ok, NoEntry, NoDoc)
       /\ UNCHANGED <<started, handle, _initialized, _lastError, millis, flags>>

\* is<int>(), is<float>(), is<const char*>() of a parsed value.
JsonIsInt(v) == v.t = "int"
JsonIsFloat(v) == v.t \in {"int", "float"}
\* Mutant: is<const char*>() is true of null as well.
JsonIsString_orNull(v) == v.t \in {"str", "null"}

JsonIsString(v) == v.t = "str"

\* exportToJson, its loop from index i on: the members assigned to root.
RECURSIVE exportLoop(_, _, _, _)
exportLoop(s, order, i, root) ==
    IF ~(i < PrefsFreeEntries(s)) THEN root
    ELSE LET key == PrefsKey(order, i)
             type == PrefsGetType(s, handle, key)
             next == IF type = "i"
                     THEN JsonAssign(root, key, JInt(PrefsGet(s, handle, key, IntVal(0)).n))
                     ELSE IF type = "f"
                     THEN JsonAssign(root, key, JFloat(PrefsGet(s, handle, key, FloatVal(0)).n))
                     ELSE IF type = "s"
                     THEN JsonAssign(root, key, JStr(PrefsGet(s, handle, key, StrVal(<<>>)).s))
                     ELSE root
         IN exportLoop(s, order, i + 1, next)

\* exportToJson: [ret, doc], the members of the text written to jsonString;
\* order is the order in which the store enumerates the namespace.
exportJson(s, order) ==
    IF ~_initialized THEN [ret |-> FALSE, doc |-> NoDoc]
    ELSE [ret |-> TRUE, doc |-> SerializeJson(exportLoop(s, order, 0, <<>>))]

\* The enumeration orders of the open namespace.
Orders(s) == IF _initialized THEN Enumerations(StoredKeys(s[handle])) ELSE {<<>>}

exportToJson ==
    \E order \in Orders(nvs) :
        LET r == exportJson(nvs, order)
        IN Read("export", "", r.ret, NoEntry, r.doc)

\* importFromJson, its loop over the members: the store afterwards.
RECURSIVE importLoop(_, _)
importLoop(s, members) ==
    IF members = <<>> THEN s
    ELSE LET key == Head(members).key
             v == Head(members).val
             next == IF JsonIsInt(v)
                     THEN setCalibrationValue(s, key, IntVal(v.n)).s
                     ELSE IF JsonIsFloat(v)
                     THEN setCalibrationValue(s, key, FloatVal(v.n)).s
                     ELSE IF JsonIsString(v)
                     THEN setCalibrationValue(s, key, StrVal(v.s)).s
                     ELSE s
         IN importLoop(next, Tail(members))

\* importFromJson: [ret, s].
importJson(s, json) ==
    IF ~_initialized THEN [s |-> s, ret |-> FALSE]
    ELSE IF ~json.wellFormed THEN [s |-> s, ret |-> FALSE]
    ELSE [s |-> importLoop(s, json.members), ret |-> TRUE]

MemberKeys(members) == {members[i].key : i \in 1..Len(members)}

importFromJson(json) ==
    LET r == importJson(nvs, json)
    IN /\ nvs' = r.s
       /\ written' = [k \in Keys |->
                        IF k \in MemberKeys(json.members) THEN NoEntry ELSE written[k]]
       /\ last' = Call("import", "", r.ret, NoEntry, json.members)
       /\ UNCHANGED <<started, handle, _initialized, _lastError, millis, flags>>

\* The texts importFromJson is given.
ImportTexts ==
    { Malformed,
      JsonText(<<Member("offset", JInt(42))>>),
      JsonText(<<Member("offset", JFloat(3))>>),
      JsonText(<<Member("offset", JNull), Member(VersionKey, JStr(<<"X">>))>>),
      JsonText(<<Member("offset", JObj), Member(VersionKey, JArr)>>) }

\* The unit test of the JSON operations: export, clear, import of the text
\* exported.
test_json_operations ==
    \E order \in Orders(nvs) :
        LET e == exportJson(nvs, order)
            c == clearAll(nvs)
            i == importJson(c.s, JsonText(e.doc))
        IN /\ nvs' = i.s
           /\ written' = NothingWritten
           /\ last' = Call("test_json", "", e.ret /\ c.ok /\ i.ret, NoEntry, e.doc)
           /\ UNCHANGED <<started, handle, _initialized, _lastError, millis, flags>>

\* A write of a metadata entry as a call of the program; the call records
\* the argument given (dflt) and the uptime at which it was made (val).
SetMeta(op, key, e, given) ==
    LET r == IF ~_initialized THEN [s |-> nvs, ok |-> FALSE]
             ELSE PrefsPut(nvs, handle, key, e)
    IN /\ nvs' = r.s
       /\ written' = [written EXCEPT ![key] = NoEntry]
       /\ last' = CallRecord(op, "", "", given, PrefsPutSize(r.ok, e) # 0,
                             ULongVal(millis), NoDoc)
       /\ UNCHANGED <<started, handle, _initialized, _lastError, millis, flags>>

setCalibrationVersion(version) ==
    SetMeta("setVersion", VersionKey, StrVal(version), StrVal(version))

getCalibrationVersion ==
    IF ~_initialized THEN Read("getVersion", "", FALSE, StrVal(<<>>), NoDoc)
    ELSE Read("getVersion", "", PrefsIsKey(nvs, handle, VersionKey),
              PrefsGet(nvs, handle, VersionKey, StrVal(<<>>)), NoDoc)

\* [ret, val] of getCalibrationVersion.
getVersion ==
    IF ~_initialized THEN [ret |-> FALSE, val |-> StrVal(<<>>)]
    ELSE [ret |-> PrefsIsKey(nvs, handle, VersionKey),
          val |-> PrefsGet(nvs, handle, VersionKey, StrVal(<<>>))]

\* Mutant: with no version stored the calibration counts as current.
isCalibrationOutdated_currentWhenAbsent(currentVersion) ==
    getVersion.ret /\ getVersion.val.s # currentVersion

isCalibrationOutdated(currentVersion) ==
    IF ~getVersion.ret THEN TRUE ELSE getVersion.val.s # currentVersion

isCalibrationOutdatedCall(currentVersion) ==
    /\ last' = CallRecord("isOutdated", "", "", StrVal(currentVersion),
                          isCalibrationOutdated(currentVersion), NoEntry, NoDoc)
    /\ UNCHANGED <<nvs, started, handle, _initialized, _lastError, millis,
                   written, flags>>

\* An unsigned long has 32 bits and wraps around; the model keeps its low
\* 16 bits, which wrap around the same way.
ULongMax == 2 ^ 16

\* Mutant: the argument is stored as given, 0 included.
timestampOf_asGiven(timestamp) == timestamp

\* setCalibrationTimestamp: the value stored for the argument.
timestampOf(timestamp) == IF timestamp = 0 THEN millis ELSE timestamp

setCalibrationTimestamp(timestamp) ==
    SetMeta("setTimestamp", TimestampKey, ULongVal(timestampOf(timestamp)),
            ULongVal(timestamp))

getCalibrationTimestamp ==
    IF ~_initialized THEN Read("getTimestamp", "", FALSE, ULongVal(0), NoDoc)
    ELSE Read("getTimestamp", "", PrefsIsKey(nvs, handle, TimestampKey),
              PrefsGet(nvs, handle, TimestampKey, ULongVal(0)), NoDoc)

\* [ret, val] of getCalibrationTimestamp.
getTimestamp ==
    IF ~_initialized THEN [ret |-> FALSE, val |-> ULongVal(0)]
    ELSE [ret |-> PrefsIsKey(nvs, handle, TimestampKey),
          val |-> PrefsGet(nvs, handle, TimestampKey, ULongVal(0))]

\* (millis() - timestamp) > maxAgeMs, in unsigned long.
isCalibrationExpired(maxAgeMs) ==
    IF ~getTimestamp.ret THEN TRUE
    ELSE (millis + ULongMax - getTimestamp.val.n) % ULongMax > maxAgeMs

isCalibrationExpiredCall(maxAgeMs) ==
    /\ last' = CallRecord("isExpired", "", "", ULongVal(maxAgeMs),
                          isCalibrationExpired(maxAgeMs), NoEntry, NoDoc)
    /\ UNCHANGED <<nvs, started, handle, _initialized, _lastError, millis,
                   written, flags>>

MaxAges == {1, 3}

\* The uptime counter advances by a millisecond; it wraps around.
Tick ==
    /\ millis # MaxMillis
    /\ millis' = (millis + 1) % ULongMax
    /\ UNCHANGED <<nvs, started, handle, _initialized, _lastError, written,
                   last, flags>>

\* ------------------------------------------------------- batch operations

\* A call that changes _batchMode or records the error of its refusal.
Batch(op, ok, mode) ==
    /\ _batchMode' = IF ok THEN mode ELSE _batchMode
    /\ _lastError' = IF ok THEN _lastError ELSE CAL_NOT_INITIALIZED
    /\ last' = Call(op, "", ok, NoEntry, NoDoc)
    /\ UNCHANGED <<nvs, started, handle, _initialized, millis, written,
                   _encryptionEnabled, _encryptionKey>>

batchBegin == Batch("batchBegin", _initialized, TRUE)
\* Mutant: batchCommit asks for an open namespace only.
batchCommit_noBatchNeeded == Batch("batchCommit", _initialized, FALSE)
batchCommit == Batch("batchCommit", _initialized /\ _batchMode, FALSE)
batchRollback == Batch("batchRollback", _initialized /\ _batchMode, FALSE)

\* ------------------------------------------------------------- encryption

NullPassphrase == "<null>"
Passphrases ==
    {NullPassphrase, "ShortKey1234567", "MySecretKey12345", "AnotherSecretKey-20+"}

\* Mutant: enableEncryption accepts every passphrase that is not null.
enableEncryptionValid_anyLength(key) == key # NullPassphrase

\* enableEncryption: the passphrase is given and has 16 characters or more.
enableEncryptionValid(key) == key # NullPassphrase /\ Len(key) >= 16

enableEncryption(key) ==
    IF ~enableEncryptionValid(key)
    THEN /\ _lastError' = CAL_ENCRYPTION_ERROR
         /\ last' = Call("enableEncryption", key, FALSE, NoEntry, NoDoc)
         /\ UNCHANGED <<nvs, started, handle, _initialized, millis, written, flags>>
    ELSE /\ _encryptionKey' = SHA256(key)
         /\ _encryptionEnabled' = TRUE
         /\ last' = Call("enableEncryption", key, TRUE, NoEntry, NoDoc)
         /\ UNCHANGED <<nvs, started, handle, _initialized, _lastError, millis,
                        written, _batchMode>>

disableEncryption ==
    /\ IF ~_encryptionEnabled
       THEN UNCHANGED <<_encryptionKey, _encryptionEnabled>>
       ELSE /\ _encryptionKey' = ZeroKey
            /\ _encryptionEnabled' = FALSE
    /\ last' = Call("disableEncryption", "", TRUE, NoEntry, NoDoc)
    /\ UNCHANGED <<nvs, started, handle, _initialized, _lastError, millis,
                   written, _batchMode>>

\* A buffer argument: a null pointer, or the bytes it points to.
NullBuf == [null |-> TRUE, bytes |-> <<>>]
Buf(bytes) == [null |-> FALSE, bytes |-> bytes]

\* The two results of encryptData and decryptData: the buffer written and
\* the size written.  A size_t has 32 bits and wraps around; the model
\* keeps its low 16 bits, which wrap around the same way.
Out(buf, size) == [null |-> buf.null, bytes |-> buf.bytes, size |-> size]
SizeMax == 2 ^ 16

\* AES-256 on one block of 16 bytes, as a permutation of the blocks that the
\* key selects: the byte at 17 - i, moved by the key and the place.
AesKeyByte(key) ==
    CASE key.kind = "zero" -> 0
      [] key.kind = "indeterminate" -> 91
      [] key.kind = "sha256" -> (11 * Len(key.of)) % 256

AesEncryptBlock(key, b) ==
    [i \in 1..16 |-> (b[17 - i] + AesKeyByte(key) + i) % 256]

AesDecryptBlock(key, c) ==
    [i \in 1..16 |-> (c[17 - i] + 512 - AesKeyByte(key) - (17 - i)) % 256]

\* The loop over the blocks: for (i = 0; i < totalSize; i += 16).
RECURSIVE AesEncryptBlocks(_, _)
AesEncryptBlocks(key, bytes) ==
    IF Len(bytes) < 16 THEN <<>>
    ELSE AesEncryptBlock(key, SubSeq(bytes, 1, 16))
         \o AesEncryptBlocks(key, SubSeq(bytes, 17, Len(bytes)))

RECURSIVE AesDecryptBlocks(_, _)
AesDecryptBlocks(key, bytes) ==
    IF Len(bytes) < 16 THEN <<>>
    ELSE AesDecryptBlock(key, SubSeq(bytes, 1, 16))
         \o AesDecryptBlocks(key, SubSeq(bytes, 17, Len(bytes)))

\* Mutant: no padding is added to a plaintext of whole blocks.
paddingSizeOf_none(size) == (16 - (size % 16)) % 16

\* encryptData: uint8_t paddingSize = 16 - (size % 16).
paddingSizeOf(size) == 16 - (size % 16)

\* Mutant: encryptData fills the padding with zero bytes.
encryptData_zeroFill(data, out0) ==
    IF ~_encryptionEnabled \/ data.null \/ out0.null
    THEN [ret |-> FALSE, err |-> CAL_ENCRYPTION_ERROR, out |-> out0]
    ELSE LET size == Len(data.bytes)
             paddingSize == paddingSizeOf(size)
             totalSize == size + paddingSize
             paddedData == data.bytes \o [i \in 1..paddingSize |-> 0]
         IN [ret |-> TRUE, err |-> _lastError,
             out |-> Out(Buf(AesEncryptBlocks(_encryptionKey, paddedData)), totalSize)]

\* encryptData(data, size, encrypted, encSize): [ret, err, out]; out0 is the
\* buffer and the size before the call.
encryptData(data, out0) ==
    IF ~_encryptionEnabled \/ data.null \/ out0.null
    THEN [ret |-> FALSE, err |-> CAL_ENCRYPTION_ERROR, out |-> out0]
    ELSE LET size == Len(data.bytes)
             paddingSize == paddingSizeOf(size)
             totalSize == size + paddingSize
             paddedData == data.bytes \o [i \in 1..paddingSize |-> paddingSize]
         IN [ret |-> TRUE, err |-> _lastError,
             out |-> Out(Buf(AesEncryptBlocks(_encryptionKey, paddedData)), totalSize)]

\* decryptData: if (paddingSize > 16).
paddingTooLong(paddingSize) == paddingSize > 16

\* decryptData(encrypted, encSize, data, size): [ret, err, out].  before is
\* the byte in front of the buffer decrypted, which decrypted[encSize - 1]
\* reads when encSize is 0.
decryptData(encrypted, out0, before) ==
    LET encSize == Len(encrypted.bytes)
    IN IF ~_encryptionEnabled \/ encrypted.null \/ out0.null \/ encSize % 16 # 0
       THEN [ret |-> FALSE, err |-> CAL_ENCRYPTION_ERROR, out |-> out0]
       ELSE LET decrypted == AesDecryptBlocks(_encryptionKey, encrypted.bytes)
                paddingSize == IF encSize = 0 THEN before ELSE decrypted[encSize]
                size == (encSize + SizeMax - paddingSize) % SizeMax
            IN IF paddingTooLong(paddingSize)
               THEN [ret |-> FALSE, err |-> CAL_ENCRYPTION_ERROR, out |-> out0]
               ELSE [ret |-> TRUE, err |-> _lastError,
                     out |-> Out(Buf(SubSeq(decrypted, 1,
                                            IF size < encSize THEN size ELSE encSize)),
                                 size)]

\* decryptData past its entry checks: the indexes of the buffer decrypted
\* (new uint8_t[encSize]) it reads or writes: the blocks the loop writes,
\* the byte read as the padding size, and the bytes memcpy copies when the
\* call goes through (ret) with the size it reports.
decryptedIndexes(encSize, ret, size) ==
    (0..(encSize - 1)) \cup {encSize - 1}
    \cup (IF ret THEN 0..(size - 1) ELSE {})

\* A call of encryptData or decryptData: arg the input, dflt the output
\* buffer and size before the call, val after it.
Crypt(op, arg, out0, r) ==
    /\ _lastError' = r.err
    /\ last' = CallRecord(op, arg, "", out0, r.ret, r.out, NoDoc)
    /\ UNCHANGED <<nvs, started, handle, _initialized, millis, written, flags>>

encryptDataCall(data, out0) == Crypt("encrypt", data, out0, encryptData(data, out0))

decryptDataCall(encrypted, out0, before) ==
    Crypt("decrypt", encrypted, out0, decryptData(encrypted, out0, before))

\* The plaintexts: every length up to MaxPlainLen, of two contents.
Fill(n, seed) == [i \in 1..n |-> (seed + i) % 256]
Plaintexts == {Fill(n, seed) : n \in 0..MaxPlainLen, seed \in {0, 250}}
DataBufs == {NullBuf} \cup {Buf(x) : x \in Plaintexts}

\* The output arguments: a null pointer, or a buffer and a size that hold
\* something else before the call.
OutBufs == {Out(NullBuf, 7), Out(Buf(<<170>>), 7)}

\* The ciphertexts given to decryptData: the one encryptData has just
\* written; a null pointer; no byte, 15 bytes, 17 bytes; and one block under
\* the key in force whose last byte decrypts to 0, to 16 and to 200, and
\* one that decrypts to bytes ending in 1, 2.
Block(x) == [i \in 1..16 |-> x]
CipherBufs ==
    {NullBuf, Buf(<<>>), Buf(Fill(15, 0)), Buf(Fill(17, 0))}
    \cup {Buf(AesEncryptBlock(_encryptionKey, Block(x))) : x \in {0, 16, 200}}
    \cup {Buf(AesEncryptBlock(_encryptionKey, Fill(16, 242)))}
    \cup (IF last.op = "encrypt" /\ last.ret THEN {Buf(last.val.bytes)} ELSE {})

\* The bytes memory may hold in front of a buffer.
BytesBefore == {0, 16, 200}

Next ==
    \/ \E name \in BeginNames : begin(name)
    \/ end
    \/ \E k \in UserKeys, v \in IntVals : setCalibrationValueInt(k, v)
    \/ \E k \in UserKeys, v \in FloatVals : setCalibrationValueFloat(k, v)
    \/ \E k \in UserKeys, v \in StrVals : setCalibrationValueString(k, v)
    \/ \E k \in UserKeys, d \in IntDefaults : getCalibrationValueInt(k, d)
    \/ \E k \in UserKeys, d \in FloatDefaults : getCalibrationValueFloat(k, d)
    \/ \E k \in UserKeys, d \in StrDefaults : getCalibrationValueString(k, d)
    \/ \E k \in Keys : hasCalibrationValue(k)
    \/ \E k \in Keys : removeCalibrationValue(k)
    \/ clearAllCalibrationValues
    \/ exportToJson
    \/ \E json \in ImportTexts : importFromJson(json)
    \/ test_json_operations
    \/ \E v \in StrVals : setCalibrationVersion(v)
    \/ getCalibrationVersion
    \/ \E t \in TimestampArgs : setCalibrationTimestamp(t)
    \/ getCalibrationTimestamp

Spec == Init /\ [][Next]_vars

\* The encryption wrapper on its own.
NextCrypt ==
    \/ \E key \in Passphrases : enableEncryption(key)
    \/ disableEncryption
    \/ \E data \in DataBufs, out0 \in OutBufs : encryptDataCall(data, out0)
    \/ \E encrypted \in CipherBufs, out0 \in OutBufs, before \in BytesBefore :
          decryptDataCall(encrypted, out0, before)

SpecCrypt == Init /\ [][NextCrypt]_vars

\* The typed accessor on one namespace, with the batch flag and the
\* encryption flag switched in between its calls.
NextFlags ==
    \/ \E name \in {"calib", BadName} : begin(name)
    \/ end
    \/ \E k \in UserKeys, v \in IntVals : setCalibrationValueInt(k, v)
    \/ \E k \in UserKeys, v \in StrVals : setCalibrationValueString(k, v)
    \/ \E k \in UserKeys, d \in IntDefaults : getCalibrationValueInt(k, d)
    \/ \E k \in UserKeys, d \in StrDefaults : getCalibrationValueString(k, d)
    \/ \E k \in UserKeys : removeCalibrationValue(k)
    \/ clearAllCalibrationValues
    \/ exportToJson
    \/ batchBegin
    \/ batchCommit
    \/ batchRollback
    \/ \E key \in Passphrases : enableEncryption(key)
    \/ disableEncryption

SpecFlags == Init /\ [][NextFlags]_vars

\* The uptime at which the accessor is made: just after the boot, or just
\* before the counter wraps around.
\* getFreeSpace: the free entries of the partition, 0 with no namespace
\* open.
getFreeSpace == IF _initialized THEN PrefsFreeEntries(nvs) ELSE 0

\* Mutant: getUsedSpace counts the entries the partition holds.
getUsedSpace_counts == IF _initialized THEN UsedIn(nvs, NsNames) ELSE 0

\* getUsedSpace: the free entries less getFreeSpace(), in size_t.
getUsedSpace ==
    IF _initialized
    THEN (PrefsFreeEntries(nvs) + SizeMax - getFreeSpace) % SizeMax
    ELSE 0

getFreeSpaceCall == Read("getFreeSpace", "", TRUE, ULongVal(getFreeSpace), NoDoc)
getUsedSpaceCall == Read("getUsedSpace", "", TRUE, ULongVal(getUsedSpace), NoDoc)

BootTimes == {0, ULongMax - 2}

InitMeta ==
    /\ nvs \in [NsNames -> {EmptyNamespace}]
    /\ started = FALSE
    /\ handle = NoNs
    /\ _initialized = FALSE
    /\ _lastError = CAL_OK
    /\ _batchMode = FALSE
    /\ _encryptionEnabled = FALSE
    /\ _encryptionKey = IndeterminateKey
    /\ millis \in BootTimes
    /\ written = NothingWritten
    /\ last = Call("new", "", TRUE, NoEntry, NoDoc)

\* The version and the timestamp of a namespace, with the clock running.
NextMeta ==
    \/ \E name \in NsNames : begin(name)
    \/ end
    \/ clearAllCalibrationValues
    \/ \E v \in StrVals : setCalibrationVersion(v)
    \/ getCalibrationVersion
    \/ \E v \in StrVals : isCalibrationOutdatedCall(v)
    \/ \E ts \in TimestampArgs : setCalibrationTimestamp(ts)
    \/ getCalibrationTimestamp
    \/ \E a \in MaxAges : isCalibrationExpiredCall(a)
    \/ \E k \in UserKeys, v \in IntVals : setCalibrationValueInt(k, v)
    \/ \E k \in Keys : hasCalibrationValue(k)
    \/ getFreeSpaceCall
    \/ getUsedSpaceCall
    \/ Tick

SpecMeta == InitMeta /\ [][NextMeta]_vars

\* ------------------------------------------------------------- the claims

SetOps == {"setInt", "setFloat", "setString"}
GetOps == {"getInt", "getFloat", "getString"}
StoreOps ==
    SetOps \cup GetOps \cup
    {"has", "remove", "clear", "export", "import", "setVersion", "getVersion",
     "setTimestamp", "getTimestamp"}

\* The type a get overload asks for.
AskedType(op) ==
    CASE op = "getInt" -> "i"
      [] op = "getFloat" -> "f"
      [] op = "getString" -> "s"

\* C1: in an open namespace, a get of key k and type T that follows a
\* successful set(k, v) of type T, with no write, remove or clear of k in
\* between, returns true and delivers exactly v.
C1_SetThenGet ==
    (/\ last.op \in GetOps
     /\ _initialized
     /\ written[last.arg] # NoEntry
     /\ written[last.arg].t = AskedType(last.op))
    => (last.ret = TRUE /\ last.val = written[last.arg])

C1_Witness ==
    /\ last.op = "getFloat"
    /\ _initialized
    /\ written[last.arg] = FloatVal(4)
    /\ last.ret = TRUE
    /\ last.val = FloatVal(4)

\* C2: in an open namespace, a get on a key that is not stored delivers the
\* default given, returns false, and leaves the last-error field as it was.
C2_GetAbsent ==
    [][(/\ last'.op \in GetOps
        /\ _initialized
        /\ ~PrefsIsKey(nvs, handle, last'.arg))
       => (/\ last'.ret = FALSE
           /\ last'.val = last'.dflt
           /\ _lastError' = _lastError)]_vars

C2_Witness ==
    /\ last.op = "getString"
    /\ _initialized
    /\ ~PrefsIsKey(nvs, handle, last.arg)
    /\ last.ret = FALSE
    /\ last.val = last.dflt
    /\ _lastError = CAL_OK

\* C3: a set (int, float or string) called while no namespace is open returns
\* false, and the last error afterwards is CAL_NOT_INITIALIZED.
C3_SetNotInitialized ==
    (last.op \in SetOps /\ ~_initialized)
    => (last.ret = FALSE /\ _lastError = CAL_NOT_INITIALIZED)

\* C4: while no namespace is open every store operation returns false, a get
\* delivers the default given ("" for the version, 0 for the timestamp), and
\* no namespace of the store changes.
C4_ClosedOpsFail ==
    [][(~_initialized /\ last'.op \in StoreOps)
       => (/\ last'.ret = FALSE
           /\ last'.op \in GetOps => last'.val = last'.dflt
           /\ last'.op = "getVersion" => last'.val = StrVal(<<>>)
           /\ last'.op = "getTimestamp" => last'.val = ULongVal(0)
           /\ nvs' = nvs
           /\ ~_initialized')]_vars

C4_Witness ==
    /\ ~_initialized
    /\ last.op = "clear"
    /\ last.ret = FALSE
    /\ \A n \in NsNames : StoredKeys(nvs[n]) # {}

\* C5: the accessor holds the store open on at most one namespace, and is
\* open exactly when the store is: a begin that succeeds leaves the store
\* open on its namespace only (the one open before is closed first), and
\* every store operation changes no namespace other than the open one.
OneNamespace ==
    /\ _initialized <=> started
    /\ started <=> handle \in NsNames
    /\ (last.op = "begin" /\ last.ret) => (started /\ handle = last.arg)

C5_OneNamespace ==
    [][/\ OneNamespace'
       /\ (last'.op \in StoreOps \cup {"test_json"})
          => (/\ handle' = handle
              /\ \A n \in NsNames \ {handle} : nvs'[n] = nvs[n])]_vars

C5_Witness ==
    /\ last.op = "begin"
    /\ last.was = "calib"
    /\ last.arg = "test"
    /\ last.ret = TRUE
    /\ started
    /\ handle = "test"
    /\ StoredKeys(nvs["calib"]) # {}

\* C6: a begin whose name the store cannot mount returns false, records
\* CAL_NOT_INITIALIZED and leaves the accessor not ready, also when a
\* namespace was open before; a begin whose name it can mount returns true
\* and leaves the accessor ready on that namespace.
C6_BeginMount ==
    (last.op = "begin" /\ last.arg # NullName)
    => IF Mountable(last.arg)
       THEN last.ret = TRUE /\ _initialized /\ started /\ handle = last.arg
       ELSE /\ last.ret = FALSE
            /\ _lastError = CAL_NOT_INITIALIZED
            /\ ~_initialized
            /\ ~started

C6_Witness ==
    /\ last.op = "begin"
    /\ last.arg = BadName
    /\ last.was \in NsNames
    /\ last.ret = FALSE
    /\ ~_initialized
    /\ _lastError = CAL_NOT_INITIALIZED

\* C7: whenever begin returns true, the last error read right after it is
\* CAL_OK, whatever was called before.
C7_BeginClearsError ==
    (last.op = "begin" /\ last.ret = TRUE) => _lastError = CAL_OK

\* The namespace holds int, float and string entries only.
OnlyScalars(ns) == \A k \in Keys : ns[k].t \in {"", "i", "f", "s"}

\* C8: in an open namespace of int, float and string entries, export, clear
\* and import of the text exported each return true and restore the same
\* keys, each with its type and value.
C8_RoundTrip ==
    [][(/\ last'.op = "test_json"
        /\ _initialized
        /\ OnlyScalars(nvs[handle]))
       => (/\ last'.ret = TRUE
           /\ \A k \in Keys : nvs'[handle][k] = nvs[handle][k])]_vars

\* The JSON kind an entry is to be emitted as.
IsNumber(tok) == tok.t \in {"int", "float"}
EmittedAs(e, tok) ==
    CASE e.t \in {"i", "f"} -> IsNumber(tok)
      [] e.t = "s" -> tok.t = "str"
      [] OTHER -> TRUE

\* C9: the text exported has exactly one member for each entry stored in the
\* open namespace and none for any other key, int and float entries as
\* numbers and string entries as strings (stated on the namespaces of int,
\* float and string entries).
C9_ExportAll ==
    (/\ last.op = "export"
     /\ last.ret = TRUE
     /\ OnlyScalars(nvs[handle]))
    => (/\ MemberKeys(last.doc) = StoredKeys(nvs[handle])
        /\ Len(last.doc) = Cardinality(StoredKeys(nvs[handle]))
        /\ \A i \in 1..Len(last.doc) :
              EmittedAs(nvs[handle][last.doc[i].key], last.doc[i].val))

\* C10: with a version and a timestamp set in the open namespace, the text
\* exported has a member "_version" of the version and a member
\* "_timestamp" of the timestamp.
C10_MetadataExported ==
    (/\ last.op = "export"
     /\ last.ret = TRUE
     /\ nvs[handle][VersionKey].t = "s"
     /\ nvs[handle][TimestampKey].t = "u")
    => (/\ \E i \in 1..Len(last.doc) :
              last.doc[i] = Member(VersionKey, JStr(nvs[handle][VersionKey].s))
        /\ \E i \in 1..Len(last.doc) :
              /\ last.doc[i].key = TimestampKey
              /\ last.doc[i].val = JInt(nvs[handle][TimestampKey].n))

\* The members of the text whose key is k.
MembersOf(doc, k) == {i \in 1..Len(doc) : doc[i].key = k}
ScalarMembers(doc) == {i \in 1..Len(doc) : doc[i].val.t \in {"int", "float", "str"}}

\* The entry importFromJson stores for a member's value.
StoredFor(v) ==
    CASE v.t = "int" -> IntVal(v.n)
      [] v.t = "float" -> FloatVal(v.n)
      [] v.t = "str" -> StrVal(v.s)

\* C11: importFromJson of a well-formed flat object, in an open namespace,
\* returns true and leaves the last error as it was; an integer, float or
\* string member is stored under its key (the store having a slot for each);
\* a member that is an object, an array or null writes nothing: the entry
\* under its key, stored or not, is as before, as is every key the text does
\* not name.
C11_ImportSkips ==
    [][(/\ last'.op = "import"
        /\ _initialized
        /\ JsonText(last'.doc) \in ImportTexts)
       => (/\ last'.ret = TRUE
           /\ _lastError' = _lastError
           /\ \A k \in Keys :
                 IF MembersOf(last'.doc, k) \cap ScalarMembers(last'.doc) = {}
                 THEN nvs'[handle][k] = nvs[handle][k]
                 ELSE PrefsFreeEntries(nvs) >= Cardinality(ScalarMembers(last'.doc))
                      => \A i \in MembersOf(last'.doc, k) :
                            nvs'[handle][k] = StoredFor(last'.doc[i].val))]_vars

C11_Witness ==
    /\ last.op = "import"
    /\ last.ret = TRUE
    /\ _initialized
    /\ last.doc = <<Member("offset", JNull), Member(VersionKey, JStr(<<"X">>))>>
    /\ nvs[handle]["offset"] = FloatVal(3)
    /\ nvs[handle][VersionKey] = StrVal(<<"X">>)


\* C12: under one enabled key, decryptData of the bytes encryptData has just
\* written for a plaintext returns true and delivers the plaintext: the same
\* length and the same bytes, for every length from 0 to MaxPlainLen, whole
\* blocks included.
C12_DecryptEncrypt ==
    [][(/\ last.op = "encrypt"
        /\ last.ret = TRUE
        /\ last'.op = "decrypt"
        /\ last'.arg = Buf(last.val.bytes)
        /\ ~last'.dflt.null)
       => (/\ last'.ret = TRUE
           /\ last'.val.size = Len(last.arg.bytes)
           /\ last'.val.bytes = last.arg.bytes)]_vars

C12_Witness ==
    /\ last.op = "decrypt"
    /\ last.ret = TRUE
    /\ Len(last.arg.bytes) = 48
    /\ last.val.size = 32
    /\ last.val.bytes = Fill(32, 250)

\* C13: enableEncryption of a null passphrase or of one shorter than 16
\* characters returns false, records CAL_ENCRYPTION_ERROR and leaves the
\* enabled flag and the key as they were; of one of 16 characters or more
\* it returns true, sets the flag and makes the key the digest of the
\* passphrase.
C13_EnableEncryption ==
    [][last'.op = "enableEncryption"
       => IF last'.arg = NullPassphrase \/ Len(last'.arg) < 16
          THEN /\ last'.ret = FALSE
               /\ _lastError' = CAL_ENCRYPTION_ERROR
               /\ _encryptionEnabled' = _encryptionEnabled
               /\ _encryptionKey' = _encryptionKey
          ELSE /\ last'.ret = TRUE
               /\ _encryptionEnabled' = TRUE
               /\ _encryptionKey' = SHA256(last'.arg)]_vars

C13_Witness ==
    /\ last.op = "enableEncryption"
    /\ last.arg = "ShortKey1234567"
    /\ last.ret = FALSE
    /\ _lastError = CAL_ENCRYPTION_ERROR
    /\ _encryptionEnabled
    /\ _encryptionKey = SHA256("MySecretKey12345")

\* C14: disableEncryption returns true, and after it the enabled flag is
\* clear and the key is all zero, whatever the state it was called in.
C14_DisableEncryption ==
    last.op = "disableEncryption"
    => (last.ret = TRUE /\ ~_encryptionEnabled /\ _encryptionKey = ZeroKey)

\* decryptData is to refuse the call: encryption is not enabled, a pointer
\* is null, the length is not a multiple of 16, or the last byte decrypted
\* exceeds 16.
Refused(encrypted, out0) ==
    \/ ~_encryptionEnabled
    \/ encrypted.null
    \/ out0.null
    \/ Len(encrypted.bytes) % 16 # 0
    \/ /\ Len(encrypted.bytes) > 0
       /\ AesDecryptBlocks(_encryptionKey, encrypted.bytes)[Len(encrypted.bytes)] > 16

\* The padding length of a ciphertext that is not refused.
PaddingOf(encrypted) ==
    IF Len(encrypted.bytes) = 0 THEN 0
    ELSE AesDecryptBlocks(_encryptionKey, encrypted.bytes)[Len(encrypted.bytes)]

\* C15: decryptData returns false, records CAL_ENCRYPTION_ERROR and writes
\* neither the output buffer nor the output size when the call is to be
\* refused; otherwise it returns true and the output size is the length of
\* the ciphertext less the padding length.
C15_DecryptData ==
    last.op = "decrypt"
    => IF Refused(last.arg, last.dflt)
       THEN /\ last.ret = FALSE
            /\ _lastError = CAL_ENCRYPTION_ERROR
            /\ last.val = last.dflt
       ELSE /\ last.ret = TRUE
            /\ last.val.size = Len(last.arg.bytes) - PaddingOf(last.arg)


EncryptionOps == {"enableEncryption", "disableEncryption"}
BatchOps == {"batchBegin", "batchCommit", "batchRollback"}

C18_Outdated ==
    [][last'.op = "isOutdated"
       => (/\ last'.ret = (\/ ~_initialized
                           \/ nvs[handle][VersionKey] = NoEntry
                           \/ nvs[handle][VersionKey] # last'.dflt)
           /\ (last.op = "begin" /\ last.ret /\ nvs[handle][VersionKey] = NoEntry)
              => last'.ret = TRUE
           /\ (last.op = "clear" /\ last.ret) => last'.ret = TRUE
           /\ (last.op = "setVersion" /\ last.ret /\ last.dflt = last'.dflt)
              => last'.ret = FALSE)]_vars

C18_Witness ==
    /\ last.op = "isOutdated"
    /\ _initialized
    /\ nvs[handle][VersionKey] = StrVal(<<"X">>)
    /\ last.dflt = StrVal(<<"X">>)
    /\ last.ret = FALSE

\* The time that has passed since the uptime was t, the counter wrapping.
Elapsed(t) == (millis + ULongMax - t) % ULongMax

\* C19: isCalibrationExpired returns true when the open namespace holds no
\* timestamp; called next after a successful setCalibrationTimestamp() with
\* the default argument, with maxAgeMs above the time passed since that
\* call, it returns false.
C19_Expired ==
    [][last'.op = "isExpired"
       => (/\ (_initialized /\ nvs[handle][TimestampKey] = NoEntry)
              => last'.ret = TRUE
           /\ (/\ last.op = "setTimestamp"
               /\ last.ret
               /\ last.dflt = ULongVal(0)
               /\ last'.dflt.n > Elapsed(last.val.n))
              => last'.ret = FALSE)]_vars

C19_Witness ==
    /\ last.op = "isExpired"
    /\ last.ret = FALSE
    /\ last.dflt = ULongVal(3)
    /\ _initialized
    /\ nvs[handle][TimestampKey] = ULongVal(ULongMax - 1)
    /\ millis = 1

WriteOps ==
    SetOps \cup {"remove", "clear", "import", "test_json", "setVersion", "setTimestamp"}

\* C20: namespaces are apart and keep their entries: a set, a remove, a
\* clear or an import changes no namespace but the open one; begin and end
\* change no entry at all; and a get in the namespace opened delivers the
\* entry that namespace holds under the key.
C20_Namespaces ==
    [][/\ last'.op \in WriteOps
          => \A n \in NsNames \ {handle} : nvs'[n] = nvs[n]
       /\ last'.op \in {"begin", "end"} => nvs' = nvs
       /\ (/\ last'.op \in GetOps
           /\ _initialized
           /\ nvs[handle][last'.arg].t = AskedType(last'.op))
          => (last'.ret = TRUE /\ last'.val = nvs[handle][last'.arg])]_vars

C20_Witness ==
    /\ last.op = "getInt"
    /\ handle = "calib"
    /\ written["offset"] = NoEntry
    /\ last.ret = TRUE
    /\ last.val = IntVal(42)
    /\ nvs["calib"]["offset"] = IntVal(42)
    /\ nvs["test"]["offset"] = StrVal(<<"X">>)

\* C21: a successful clearAllCalibrationValues leaves no entry in the open
\* namespace, the reserved entries _version and _timestamp included, and
\* changes no other namespace; called next, hasCalibrationValue returns
\* false for every key and isCalibrationOutdated and isCalibrationExpired
\* return true.
C21_ClearAll ==
    [][/\ (last'.op = "clear" /\ last'.ret)
          => (/\ \A k \in Keys : ~PrefsIsKey(nvs', handle, k)
              /\ \A n \in NsNames \ {handle} : nvs'[n] = nvs[n])
       /\ (last.op = "clear" /\ last.ret /\ last'.op = "has")
          => last'.ret = FALSE
       /\ (last.op = "clear" /\ last.ret /\ last'.op \in {"isOutdated", "isExpired"})
          => last'.ret = TRUE]_vars

C21_Witness ==
    /\ last.op = "clear"
    /\ last.ret
    /\ handle = "calib"
    /\ nvs["calib"] = EmptyNamespace
    /\ nvs["test"][VersionKey] = StrVal(<<"X">>)
    /\ nvs["test"][TimestampKey] # NoEntry
    /\ nvs["test"]["offset"] = IntVal(42)

\* C22: getUsedSpace returns 0 in every state, a namespace open or not,
\* whatever the store holds.
C22_UsedSpaceZero ==
    last.op = "getUsedSpace" => last.val = ULongVal(0)

C22_Witness ==
    /\ last.op = "getUsedSpace"
    /\ last.val = ULongVal(0)
    /\ _initialized
    /\ UsedIn(nvs, NsNames) = Capacity
    /\ PrefsFreeEntries(nvs) = 0

\* C23: with encryption enabled, encryptData of n bytes enciphers the n
\* bytes followed by p = 16 - (n mod 16) bytes each equal to p and reports
\* encSize = n + p, where 1 <= p <= 16 and encSize is a multiple of 16
\* above n (a whole extra block when n is a multiple of 16, 0 included);
\* with encryption not enabled it returns false, records
\* CAL_ENCRYPTION_ERROR and writes no output.
C23_EncryptPadding ==
    last.op = "encrypt"
    => IF ~_encryptionEnabled
       THEN /\ last.ret = FALSE
            /\ _lastError = CAL_ENCRYPTION_ERROR
            /\ last.val = last.dflt
       ELSE (~last.arg.null /\ ~last.dflt.null)
            => LET n == Len(last.arg.bytes)
                   encSize == last.val.size
                   p == encSize - n
                   padded == AesDecryptBlocks(_encryptionKey, last.val.bytes)
               IN /\ last.ret = TRUE
                  /\ p = 16 - (n % 16)
                  /\ 1 <= p /\ p <= 16
                  /\ encSize % 16 = 0
                  /\ encSize > n
                  /\ n % 16 = 0 => encSize = n + 16
                  /\ Len(last.val.bytes) = encSize
                  /\ SubSeq(padded, 1, n) = last.arg.bytes
                  /\ \A i \in (n + 1)..encSize : padded[i] = p

C23_Witness ==
    /\ last.op = "encrypt"
    /\ last.ret = TRUE
    /\ _encryptionEnabled
    /\ last.arg.bytes = Fill(32, 0)
    /\ last.val.size = 48
    /\ AesDecryptBlocks(_encryptionKey, last.val.bytes)[48] = 16

\* C24: a key has one stored type and value at a time: a successful set of
\* a key stored with another type leaves the key with the new type and
\* value only, a get that asks for another type than the one set delivers
\* its default, and exportToJson emits each key set exactly once, as its
\* new type.
C24_OneTypePerKey ==
    [][/\ (/\ last'.op \in SetOps
           /\ last'.ret
           /\ nvs[handle][last'.arg] # NoEntry
           /\ nvs[handle][last'.arg].t # written'[last'.arg].t)
          => nvs'[handle][last'.arg] = written'[last'.arg]
       /\ (/\ last'.op \in GetOps
           /\ _initialized
           /\ written[last'.arg] # NoEntry
           /\ written[last'.arg].t # AskedType(last'.op))
          => last'.val = last'.dflt
       /\ (last'.op = "export" /\ last'.ret)
          => \A k \in UserKeys :
                written[k] # NoEntry
                => (/\ Cardinality(MembersOf(last'.doc, k)) = 1
                    /\ \A i \in MembersOf(last'.doc, k) :
                          EmittedAs(written[k], last'.doc[i].val))]_vars

\* C25: whenever a getCalibrationValue returns true, the value delivered is
\* the entry stored under the key, also when the entry has another type
\* than the one asked for; it is then not the default of the caller.
C25_GetDeliversStored ==
    (last.op \in GetOps /\ last.ret = TRUE)
    => last.val = nvs[handle][last.arg]

\* C26: whenever the batch flag is set a namespace is open: neither end()
\* nor a begin() that fails leaves a batch pending.
C26_BatchNeedsOpen ==
    _batchMode => _initialized

\* C27: batchBegin fails with CAL_NOT_INITIALIZED when no namespace is
\* open and sets the batch flag otherwise; batchCommit and batchRollback
\* return false and record CAL_NOT_INITIALIZED unless a namespace is open
\* and the flag is set, and then return true and clear the flag; so one
\* called next after a successful batchCommit or batchRollback fails.
C27_BatchRefusals ==
    [][/\ last'.op = "batchBegin"
          => IF _initialized
             THEN last'.ret = TRUE /\ _batchMode' = TRUE /\ _lastError' = _lastError
             ELSE /\ last'.ret = FALSE
                  /\ _lastError' = CAL_NOT_INITIALIZED
                  /\ _batchMode' = _batchMode
       /\ last'.op \in {"batchCommit", "batchRollback"}
          => IF _initialized /\ _batchMode
             THEN last'.ret = TRUE /\ _batchMode' = FALSE /\ _lastError' = _lastError
             ELSE /\ last'.ret = FALSE
                  /\ _lastError' = CAL_NOT_INITIALIZED
                  /\ _batchMode' = _batchMode
       /\ (/\ last.op \in {"batchCommit", "batchRollback"}
           /\ last.ret
           /\ last'.op \in {"batchCommit", "batchRollback"})
          => (last'.ret = FALSE /\ _lastError' = CAL_NOT_INITIALIZED)]_vars

C27_Witness ==
    /\ last.op = "batchRollback"
    /\ last.ret = FALSE
    /\ _initialized
    /\ ~_batchMode
    /\ _lastError = CAL_NOT_INITIALIZED
    /\ nvs["calib"]["offset"] = IntVal(42)

\* C28: decryptData reads and writes within its buffers only: in a call
\* that passes the entry checks every index of the buffer of encSize bytes
\* that is accessed lies in 0..encSize - 1, a ciphertext of no bytes
\* included.
C28_DecryptInBounds ==
    (/\ last.op = "decrypt"
     /\ _encryptionEnabled
     /\ ~last.arg.null
     /\ ~last.dflt.null
     /\ Len(last.arg.bytes) % 16 = 0)
    => \A i \in decryptedIndexes(Len(last.arg.bytes), last.ret, last.val.size) :
          0 <= i /\ i < Len(last.arg.bytes)

\* C29: decryptData returns true only for a well-formed padding: the last
\* byte decrypted, p, is from 1 to 16 and the last p bytes decrypted all
\* equal p; so the size it reports with true is below encSize.
C29_PaddingValidated ==
    (last.op = "decrypt" /\ last.ret = TRUE)
    => LET encSize == Len(last.arg.bytes)
           decrypted == AesDecryptBlocks(_encryptionKey, last.arg.bytes)
       IN /\ encSize > 0
          /\ 1 <= decrypted[encSize] /\ decrypted[encSize] <= 16
          /\ \A i \in (encSize - decrypted[encSize] + 1)..encSize :
                decrypted[i] = decrypted[encSize]
          /\ last.val.size < encSize

\* C30: isCalibrationExpired(maxAgeMs) returns false for a timestamp that
\* is not older than maxAgeMs: called next after a successful
\* setCalibrationTimestamp, no more than maxAgeMs after it, it returns
\* false when the timestamp stored is the uptime of that call and also
\* when it is a value given by the caller that is greater than millis().
C30_FreshNotExpired ==
    [][(/\ last.op = "setTimestamp"
        /\ last.ret
        /\ last'.op = "isExpired"
        /\ Elapsed(last.val.n) <= last'.dflt.n
        /\ \/ last.dflt = ULongVal(0)
           \/ nvs[handle][TimestampKey].n > millis)
       => last'.ret = FALSE]_vars

====
